---- MODULE Spec2Model ----
(***************************************************************************)
(* GraphReader (src/src/baldr/graphreader.cc): traversal primitives over a *)
(* tiled, multi-level directed graph.  The state is the tile storage, the  *)
(* tile cache of one reader, and the call in progress.                     *)
(***************************************************************************)
EXTENDS Integers, Sequences, FiniteSets, TLC

(***************************************************************************)
(* Bounds of the tile sets the reader is run against.                      *)
(***************************************************************************)
\* longest chain of base edges under one shortcut
MaxChain == 3
\* number of shortcut positions (superseded bits 0 .. MaxBit-1) at a node
MaxBit == 3
\* the cache ceiling, in tiles
MaxCacheTiles == 2

(***************************************************************************)
(* GraphId: (level, tile, index).                                          *)
(***************************************************************************)
GraphId(tileid, level, id) == [level |-> level, tileid |-> tileid, id |-> id]

\* the default-constructed GraphId, `{}`: every bit set
InvalidGraphId == [level |-> 7, tileid |-> 4194303, id |-> 2097151]

Is_Valid(g) == g # InvalidGraphId

Tile_Base(g) == GraphId(g.tileid, g.level, 0)

set_id(g, i) == [g EXCEPT !.id = i]

\* the null tile, node or edge pointer
nullptr == [level |-> -1, tileid |-> -1, id |-> -1]

\* the last level of TileHierarchy::levels(): the local level
LocalLevel == 2

\* access mask bit of the mode shortcuts are built for
kAutoAccess == 1

kPedestrianAccess == 2

RECURSIVE BitAnd(_, _)
\* a & b on unsigned integers
BitAnd(a, b) ==
  IF a = 0 \/ b = 0 THEN 0
  ELSE (IF a % 2 = 1 /\ b % 2 = 1 THEN 1 ELSE 0) + 2 * BitAnd(a \div 2, b \div 2)

(***************************************************************************)
(* Tile sets.  A blueprint lists the nodes (with their tile) and the       *)
(* directed edges in storage order; Build lays them out as the tiles do:   *)
(* the edges of one node are contiguous, a node records the index of its   *)
(* first edge, an edge records the position of its reverse among the edges *)
(* of its end node.                                                        *)
(***************************************************************************)
Road ==
  [is_shortcut |-> FALSE, shortcut |-> 0, superseded |-> 0, use |-> "kRoad",
   forwardaccess |-> kAutoAccess + kPedestrianAccess, sign |-> FALSE,
   classification |-> 0, roundabout |-> FALSE, link |-> FALSE, toll |-> FALSE,
   destonly |-> FALSE, unpaved |-> FALSE, surface |-> 0, length |-> 1]

D(from, to, seg, a) == [from |-> from, to |-> to, seg |-> seg, a |-> a]

SameTile(bp, j, k) ==
  /\ bp.nodes[j].level = bp.nodes[k].level
  /\ bp.nodes[j].tileid = bp.nodes[k].tileid

NodeGid(bp, k) ==
  GraphId(bp.nodes[k].tileid, bp.nodes[k].level,
          Cardinality({j \in 1..(k - 1) : SameTile(bp, j, k)}))

EdgeIndexOf(bp, k) ==
  Cardinality({i \in 1..Len(bp.edges) :
                 bp.edges[i].from < k /\ SameTile(bp, bp.edges[i].from, k)})

PosOf(bp, i) ==
  Cardinality({h \in 1..(i - 1) : bp.edges[h].from = bp.edges[i].from})

EdgeGid(bp, i) ==
  LET k == bp.edges[i].from
  IN  GraphId(bp.nodes[k].tileid, bp.nodes[k].level, EdgeIndexOf(bp, k) + PosOf(bp, i))

\* the physical reverse of edge i: same segment, opposite direction
OppOf(bp, i) ==
  CHOOSE h \in 1..Len(bp.edges) :
    /\ bp.edges[h].from = bp.edges[i].to
    /\ bp.edges[h].to = bp.edges[i].from
    /\ bp.edges[h].seg = bp.edges[i].seg

Build(bp, missing) ==
  [present |-> {Tile_Base(NodeGid(bp, k)) : k \in DOMAIN bp.nodes} \ missing,
   node |->
     [g \in {NodeGid(bp, k) : k \in DOMAIN bp.nodes} |->
        LET k == CHOOSE k \in DOMAIN bp.nodes : NodeGid(bp, k) = g
        IN  [edge_index |-> EdgeIndexOf(bp, k),
             edge_count |-> Cardinality({i \in 1..Len(bp.edges) : bp.edges[i].from = k}),
             transitions |->
               [t \in DOMAIN bp.nodes[k].trans |-> NodeGid(bp, bp.nodes[k].trans[t])],
             density |-> k]],
   edge |->
     [g \in {EdgeGid(bp, i) : i \in DOMAIN bp.edges} |->
        LET i == CHOOSE i \in DOMAIN bp.edges : EdgeGid(bp, i) = g
        IN  [endnode |-> NodeGid(bp, bp.edges[i].to),
             opp_index |-> PosOf(bp, OppOf(bp, i)),
             leaves_tile |-> ~SameTile(bp, bp.edges[i].from, bp.edges[i].to),
             edgeinfo_offset |-> bp.edges[i].seg,
             forward |-> bp.edges[i].from < bp.edges[i].to]
            @@ bp.edges[i].a]]

RECURSIVE Flatten(_)
Flatten(ss) == IF ss = <<>> THEN <<>> ELSE Head(ss) \o Flatten(Tail(ss))

(***************************************************************************)
(* Chain(N, p, branch, dlen): on the highway level a chain                 *)
(* n0 -> n1 -> ... -> nN of N base edges under the shortcut S: n0 -> nN,   *)
(* which is the p-th shortcut of n0 (mask 2^p); nN lies in the next tile.  *)
(* p other shortcuts n0 -> Y precede S.  n0 and nN have a node on the      *)
(* local level, nN's local node is connected to a transit station.         *)
(* branch adds a side edge at n1; dlen is added to the shortcut's length.  *)
(* Base edge i of the chain is i + 1 long.                                 *)
(***************************************************************************)
Chain(N, p, branch, dlen) ==
  LET iY == 1
      n(i) == 2 + i
      iZ == N + 3
      iL0 == N + 4
      iLN == N + 5
      iT0 == N + 6
      iT1 == N + 7
      sum == (N * (N + 1)) \div 2 + N
      Other == [Road EXCEPT !.classification = 1]
      Sh(bit, len) == [Road EXCEPT !.is_shortcut = TRUE, !.shortcut = 2^bit, !.length = len]
      fwdF(j) == D(n(0), iY, <<"F", j>>, [Sh(j, 1) EXCEPT !.classification = 1])
      revF(j) == D(iY, n(0), <<"F", j>>, [Sh(j, 1) EXCEPT !.classification = 1])
      fwdB(j) == D(n(0), iY, <<"b", j>>, [Other EXCEPT !.superseded = 2^j])
      revB(j) == D(iY, n(0), <<"b", j>>, [Other EXCEPT !.superseded = 2^j])
      e(i) == D(n(i - 1), n(i), <<"e", i>>,
                [Road EXCEPT !.length = i + 1, !.superseded = IF i = 1 THEN 2^p ELSE 0])
      r(i) == D(n(i), n(i - 1), <<"e", i>>,
                [Road EXCEPT !.length = i + 1, !.superseded = IF i = N THEN 1 ELSE 0])
      side == CASE branch = "noauto" -> [Road EXCEPT !.forwardaccess = kPedestrianAccess]
                [] branch = "tconn" -> [Road EXCEPT !.use = "kTransitConnection"]
                [] OTHER -> Road
      sideTo == IF branch = "tconn" THEN iT0 ELSE iZ
      br == IF branch = "none" THEN <<>> ELSE <<D(n(1), sideTo, <<"br", 0>>, side)>>
      brRev == IF branch = "none" THEN <<>> ELSE <<D(sideTo, n(1), <<"br", 0>>, side)>>
      mid(i) == <<r(i)>> \o (IF i = 1 /\ branch # "after" THEN br ELSE <<>>)
                \o <<e(i + 1)>> \o (IF i = 1 /\ branch = "after" THEN br ELSE <<>>)
      Rail == [Road EXCEPT !.use = "kRail", !.forwardaccess = kPedestrianAccess]
      Conn == [Road EXCEPT !.use = "kTransitConnection", !.forwardaccess = kPedestrianAccess]
      Local == [Road EXCEPT !.classification = 7]
  IN  [nodes |->
         [k \in 1..(N + 7) |->
            [level |-> IF k <= N + 3 THEN 0 ELSE IF k <= N + 5 THEN 2 ELSE 3,
             tileid |-> IF k = n(N) \/ k = iZ THEN 1 ELSE 0,
             trans |-> CASE k = n(0) -> <<iL0>>
                         [] k = iL0 -> <<n(0)>>
                         [] k = n(N) -> <<iLN>>
                         [] k = iLN -> <<n(N)>>
                         [] OTHER -> <<>>]],
       edges |->
         [j \in 1..p |-> revF(j - 1)] \o [j \in 1..p |-> revB(j - 1)]
         \o [j \in 1..p |-> fwdF(j - 1)]
         \o <<D(n(0), n(N), <<"S", 0>>, Sh(p, sum + dlen))>>
         \o [j \in 1..p |-> fwdB(j - 1)] \o <<e(1)>>
         \o Flatten([i \in 1..(N - 1) |-> mid(i)])
         \o <<D(n(N), n(0), <<"S", 0>>, Sh(0, sum + dlen)), r(N)>>
         \o brRev
         \o <<D(iL0, iLN, <<"l", 0>>, Local)>>
         \o <<D(iLN, iL0, <<"l", 0>>, Local), D(iLN, iT0, <<"tc", 0>>, Conn)>>
         \o <<D(iT0, iLN, <<"tc", 0>>, Conn), D(iT0, iT1, <<"tl", 0>>, Rail)>>
         \o <<D(iT1, iT0, <<"tl", 0>>, Rail)>>]

(***************************************************************************)
(* Ring(K): K nodes of the highway level joined in a closed loop, two      *)
(* edges at every node, no shortcut over them and no edge superseded.      *)
(***************************************************************************)
Ring(K) ==
  [nodes |-> [k \in 1..K |-> [level |-> 0, tileid |-> 0, trans |-> <<>>]],
   edges |->
     Flatten([k \in 1..K |->
                <<D(k, (k % K) + 1, <<"g", k>>, Road),
                  D(k, ((k + K - 2) % K) + 1, <<"g", ((k + K - 2) % K) + 1>>, Road)>>])]

(***************************************************************************)
(* Lasso(len): a shortcut S: n0 -> X of length 3 whose superseded edge     *)
(* n0 -> c1, of length 1, leads into the loop c1 -> c2 -> c3 -> c1 of      *)
(* edges of length len that carry the attributes of S; the loop never      *)
(* comes to X.                                                             *)
(***************************************************************************)
Lasso(len) ==
  LET S == [Road EXCEPT !.is_shortcut = TRUE, !.shortcut = 1, !.length = 3]
      E == [Road EXCEPT !.superseded = 1]
      G == [Road EXCEPT !.length = len]
  IN  [nodes |-> [k \in 1..5 |-> [level |-> 0, tileid |-> 0, trans |-> <<>>]],
       edges |->
         <<D(1, 5, <<"S", 0>>, S), D(1, 2, <<"e", 1>>, E),
           D(2, 3, <<"g", 1>>, G), D(2, 4, <<"g", 3>>, G), D(2, 1, <<"e", 1>>, Road),
           D(3, 4, <<"g", 2>>, G), D(3, 2, <<"g", 1>>, G),
           D(4, 2, <<"g", 3>>, G), D(4, 3, <<"g", 2>>, G),
           D(5, 1, <<"S", 0>>, S)>>]

TileA == GraphId(0, 0, 0)
TileB == GraphId(1, 0, 0)
TileL == GraphId(0, 2, 0)
TileT == GraphId(0, 3, 0)

\* the tile sets the reader is run against: well-formed chains of every
\* length and of every shortcut position, chains with a side edge at n1,
\* shortcuts whose recorded length is off by one, a missing tile, a closed
\* loop of two-edge nodes, and a shortcut whose base edges run into a loop
Stores ==
  {Build(Chain(N, 0, "none", 0), {}) : N \in 1..MaxChain}
  \cup {Build(Chain(2, p, "none", 0), {}) : p \in 1..(MaxBit - 1)}
  \cup {Build(Chain(2, 0, b, 0), {}) : b \in {"before", "after", "noauto", "tconn"}}
  \cup {Build(Chain(N, 0, "none", d), {}) : N \in 1..2, d \in {-1, 1}}
  \cup {Build(Chain(2, 0, "none", 0), {t}) : t \in {TileA, TileB, TileL, TileT}}
  \cup {Build(Ring(MaxChain), {})}
  \cup {Build(Lasso(len), {}) : len \in {0, 1}}

\* store: the tiles in storage; cache: the tiles resident in the reader's
\* cache; pc, call, res: the call in progress and its result; bbIds, bbTile,
\* bbBox, bbTrims: the locals of GetMinimumBoundingBox (tiles still to scan,
\* the tile pointer held, what min_bb covers, Trim() calls so far); tiles: the
\* Tiles<> grid in use; gen: the ClosestFirst functor the caller holds
VARIABLES store, cache, pc, call, res, bbIds, bbTile, bbBox, bbTrims, tiles, gen

vars == <<store, cache, pc, call, res, bbIds, bbTile, bbBox, bbTrims, tiles, gen>>

bbVars == <<bbIds, bbTile, bbBox, bbTrims>>

tVars == <<tiles, gen>>

EdgeIds == DOMAIN store.edge

NodeIds == DOMAIN store.node

(***************************************************************************)
(* GraphReader and GraphTile members declared in the headers.              *)
(***************************************************************************)
\* GraphReader::GetGraphTile(id): the tile, or null when it does not exist
GetGraphTile(id) == IF Tile_Base(id) \in store.present THEN Tile_Base(id) ELSE nullptr

\* GraphReader::GetGraphTile(id, tile): keeps tile when it is already id's tile
GetGraphTile2(id, tile) ==
  IF tile = nullptr \/ tile # Tile_Base(id) THEN GetGraphTile(id) ELSE tile

\* whether index idx is inside the tile's directed edge array
HasEdge(tile, idx) == set_id(tile, idx) \in DOMAIN store.edge

HasNode(tile, idx) == set_id(tile, idx) \in DOMAIN store.node

\* tile->directededge(idx)
directededge(tile, idx) == store.edge[set_id(tile, idx)]

\* tile->node(idx)
node(tile, idx) == store.node[set_id(tile, idx)]

\* DirectedEdge::IsTransitLine
IsTransitLine(de) == de.use = "kRail" \/ de.use = "kBus"

(***************************************************************************)
(* Results.  A call either returns or dereferences a null (or out of       *)
(* range) pointer, which is recorded as a fault; loads is the set of tiles *)
(* the call fetched through the cache.                                     *)
(***************************************************************************)
B(v, f, l) == [v |-> v, fault |-> f, loads |-> l]

\* a || b, b evaluated only when a is false
OrElse(a, b) == IF a.fault \/ a.v THEN a ELSE B(b.v, b.fault, a.loads \cup b.loads)

WithLoads(l, a) == B(a.v, a.fault, l \cup a.loads)

\* variant: the index put into the id of the edge itself
OpposingId_KeepsTile(edgeid, id, nodeinfo, de) ==
  set_id(edgeid, nodeinfo.edge_index + de.opp_index)

\* variant: the first edge of the end node
OpposingId_NoOppIndex(edgeid, id, nodeinfo, de) == set_id(id, nodeinfo.edge_index)

\* id.set_id(tile->node(id)->edge_index() + directededge->opp_index()), id
\* being the end node of the edge de with id edgeid
OpposingId(edgeid, id, nodeinfo, de) == set_id(id, nodeinfo.edge_index + de.opp_index)

\* GraphReader::GetOpposingEdgeId(edgeid, tile); tile is the out-parameter
GetOpposingEdgeId(edgeid) ==
  LET t0 == GetGraphTile(edgeid)
  IN  IF t0 = nullptr THEN [id |-> InvalidGraphId, tile |-> nullptr, fault |-> FALSE, loads |-> {}]
      ELSE IF ~HasEdge(t0, edgeid.id)
      THEN [id |-> InvalidGraphId, tile |-> t0, fault |-> TRUE, loads |-> {t0}]
      ELSE LET de == directededge(t0, edgeid.id)
               id == de.endnode
               t1 == GetGraphTile2(id, t0)
           IN  IF IsTransitLine(de)
               THEN [id |-> InvalidGraphId, tile |-> t0, fault |-> FALSE, loads |-> {t0}]
               ELSE IF t1 = nullptr
               THEN [id |-> InvalidGraphId, tile |-> nullptr, fault |-> FALSE, loads |-> {t0}]
               ELSE IF ~HasNode(t1, id.id)
               THEN [id |-> InvalidGraphId, tile |-> t1, fault |-> TRUE, loads |-> {t0, t1}]
               ELSE [id |-> OpposingId(edgeid, id, node(t1, id.id), de),
                     tile |-> t1, fault |-> FALSE, loads |-> {t0, t1}]

\* GraphReader::GetOpposingEdge(edgeid, tile): the edge (as its id) or null
GetOpposingEdge(edgeid) ==
  LET o == GetOpposingEdgeId(edgeid)
  IN  IF o.fault THEN [de |-> nullptr, tile |-> o.tile, fault |-> TRUE, loads |-> o.loads]
      ELSE IF ~Is_Valid(o.id) THEN [de |-> nullptr, tile |-> o.tile, fault |-> FALSE, loads |-> o.loads]
      ELSE IF ~HasEdge(o.tile, o.id.id)
      THEN [de |-> nullptr, tile |-> o.tile, fault |-> TRUE, loads |-> o.loads]
      ELSE [de |-> set_id(o.tile, o.id.id), tile |-> o.tile, fault |-> FALSE, loads |-> o.loads]

\* the lambda is_transition of AreEdgesConnected
is_transition(n1, n2) ==
  IF n1.level = n2.level THEN B(FALSE, FALSE, {})
  ELSE LET tile == GetGraphTile(n1)
       IN  IF tile = nullptr \/ ~HasNode(tile, n1.id) THEN B(FALSE, TRUE, {})
           ELSE LET ni == node(tile, n1.id)
                IN  IF Len(ni.transitions) = 0 THEN B(FALSE, FALSE, {tile})
                    ELSE B(\E i \in 1..Len(ni.transitions) : ni.transitions[i] = n2,
                           FALSE, {tile})

\* GraphReader::AreEdgesConnected
AreEdgesConnected(edge1, edge2) ==
  LET t1 == GetGraphTile(edge1)
      t2 == IF Tile_Base(edge2) = Tile_Base(edge1) THEN t1 ELSE GetGraphTile(edge2)
  IN  IF t1 = nullptr \/ ~HasEdge(t1, edge1.id) THEN B(FALSE, TRUE, {})
      ELSE IF t2 = nullptr \/ ~HasEdge(t2, edge2.id) THEN B(FALSE, TRUE, {t1})
      ELSE
        LET de1 == directededge(t1, edge1.id)
            de2 == directededge(t2, edge2.id)
            o1 == GetOpposingEdge(edge1)
            o2 == GetOpposingEdge(edge2)
            end1opp == store.edge[o1.de].endnode
            end2opp == store.edge[o2.de].endnode
            c1 == OrElse(B(de1.endnode = de2.endnode, FALSE, {t1, t2}),
                         is_transition(de1.endnode, de2.endnode))
            c2 == IF o1.fault \/ o1.de = nullptr THEN B(FALSE, o1.fault, o1.loads)
                  ELSE WithLoads(o1.loads,
                         OrElse(B(end1opp = de2.endnode, FALSE, {}),
                                is_transition(end1opp, de2.endnode)))
            c3 == IF o2.fault \/ o2.de = nullptr THEN B(FALSE, o2.fault, o2.loads)
                  ELSE WithLoads(o2.loads,
                         OrElse(B(end2opp = de1.endnode, FALSE, {}),
                           IF o1.de = nullptr THEN B(FALSE, TRUE, {})
                           ELSE OrElse(B(end2opp = end1opp, FALSE, {}),
                                  OrElse(is_transition(end2opp, de1.endnode),
                                         is_transition(end2opp, end1opp)))))
        IN  OrElse(c1, OrElse(c2, c3))

\* GraphReader::edge_endnode(edgeid, tile)
edge_endnode(edgeid, tile) ==
  LET t == GetGraphTile2(edgeid, tile)
  IN  IF t = nullptr THEN [id |-> InvalidGraphId, tile |-> nullptr, fault |-> FALSE]
      ELSE IF ~HasEdge(t, edgeid.id) THEN [id |-> InvalidGraphId, tile |-> t, fault |-> TRUE]
      ELSE [id |-> directededge(t, edgeid.id).endnode, tile |-> t, fault |-> FALSE]

\* the first transition of the node that leads to the level, or none
TransitionTo(ni, level) ==
  LET hits == {i \in 1..Len(ni.transitions) : ni.transitions[i].level = level}
  IN  IF hits = {} THEN nullptr
      ELSE ni.transitions[CHOOSE i \in hits : \A j \in hits : i <= j]

\* the final range test of AreEdgesConnectedForward on the node's edges
InEdgeRange(tile, endnode, edge2) ==
  LET nd == node(tile, endnode.id)
  IN  nd.edge_index <= edge2.id /\ edge2.id < nd.edge_index + nd.edge_count

\* GraphReader::AreEdgesConnectedForward, tile passed in as null
AreEdgesConnectedForward(edge1, edge2) ==
  LET en == edge_endnode(edge1, nullptr)
      endnode == en.id
      tile1 == IF Tile_Base(endnode) # Tile_Base(edge1) THEN GetGraphTile(endnode) ELSE en.tile
      l1 == {en.tile, tile1} \ {nullptr}
  IN  IF en.fault THEN B(FALSE, TRUE, l1)
      ELSE IF tile1 = nullptr THEN B(FALSE, FALSE, l1)
      ELSE IF ~HasNode(tile1, endnode.id) THEN B(FALSE, TRUE, l1)
      ELSE
        LET tr == IF edge2.level # endnode.level
                  THEN TransitionTo(node(tile1, endnode.id), edge2.level)
                  ELSE nullptr
            endnode2 == IF tr # nullptr THEN tr ELSE endnode
            tile2 == IF tr # nullptr THEN GetGraphTile(endnode2) ELSE tile1
            l2 == l1 \cup ({tile2} \ {nullptr})
        IN  IF tile2 = nullptr THEN B(FALSE, FALSE, l2)
            ELSE IF ~HasNode(tile2, endnode2.id) THEN B(FALSE, TRUE, l2)
            ELSE B(InEdgeRange(tile2, endnode2, edge2), FALSE, l2)

\* GraphReader::GetEdgeDensity
GetEdgeDensity(edgeid) ==
  LET o == GetOpposingEdge(edgeid)
  IN  IF o.fault THEN B(0, TRUE, o.loads)
      ELSE IF o.de = nullptr THEN B(0, FALSE, o.loads)
      ELSE LET id == store.edge[o.de].endnode
               tile == GetGraphTile(id)
           IN  IF tile = nullptr THEN B(0, FALSE, o.loads)
               ELSE IF ~HasNode(tile, id.id) THEN B(0, TRUE, o.loads \cup {tile})
               ELSE B(node(tile, id.id).density, FALSE, o.loads \cup {tile})

\* GraphReader::GetDirectedEdgeNodes(tile, edge), edge given by its id in tile
GetDirectedEdgeNodes(tile, edge) ==
  LET de == store.edge[edge]
      end_node == de.endnode
      t2 == IF de.leaves_tile THEN GetGraphTile(end_node) ELSE tile
  IN  IF t2 = nullptr THEN B(<<InvalidGraphId, end_node>>, FALSE, {})
      ELSE IF ~HasNode(t2, end_node.id) THEN B(<<InvalidGraphId, end_node>>, TRUE, {t2})
      ELSE LET edge_idx == node(t2, end_node.id).edge_index + de.opp_index
           IN  IF ~HasEdge(t2, edge_idx) THEN B(<<InvalidGraphId, end_node>>, TRUE, {t2})
               ELSE B(<<directededge(t2, edge_idx).endnode, end_node>>, FALSE, {t2})

(***************************************************************************)
(* GetShortcut.                                                            *)
(***************************************************************************)
\* the edges the lambda continuing_edge does not skip at the node
ContinuingCandidates(tile, edgeid, nodeinfo) ==
  {idx \in nodeinfo.edge_index..(nodeinfo.edge_index + nodeinfo.edge_count - 1) :
     LET de == directededge(tile, idx)
     IN  ~(\/ idx = edgeid.id
           \/ de.is_shortcut
           \/ de.use = "kTransitConnection"
           \/ de.use = "kEgressConnection"
           \/ de.use = "kPlatformConnection")}

\* variant: the first remaining edge, however many remain
continuing_edge_first(tile, edgeid, nodeinfo) ==
  LET c == ContinuingCandidates(tile, edgeid, nodeinfo)
  IN  IF c = {} THEN nullptr
      ELSE set_id(tile, CHOOSE idx \in c : \A other \in c : idx <= other)

\* the lambda continuing_edge: null unless exactly one edge remains
continuing_edge(tile, edgeid, nodeinfo) ==
  LET c == ContinuingCandidates(tile, edgeid, nodeinfo)
  IN  IF Cardinality(c) = 1 THEN set_id(tile, CHOOSE idx \in c : TRUE) ELSE nullptr

\* the index of the shortcut that supersedes an edge of the node
ShortcutIndex(edge_index, superseded) == edge_index + (superseded - 1)

GS(v, fault, loads, diverges, steps, sup) ==
  [v |-> v, fault |-> fault, loads |-> loads, diverges |-> diverges,
   steps |-> steps, sup |-> sup]

RECURSIVE GetShortcutWalk(_, _, _, _, _, _)
\* one pass of the while loop, entered with the continuing edge cont_de found
\* from edgeid in tile.  seen holds the edge ids the passes so far ended on,
\* steps the nodes the lambda continuing_edge ran at
GetShortcutWalk(tile, edgeid, cont_de, seen, loads, steps) ==
  IF cont_de = nullptr THEN GS(InvalidGraphId, FALSE, loads, FALSE, steps, nullptr)
  ELSE
    LET endnode == store.edge[cont_de].endnode
        tile1 == IF store.edge[cont_de].leaves_tile
                 THEN GetGraphTile(Tile_Base(endnode)) ELSE tile
        loads1 == loads \cup ({tile1} \ {nullptr})
    IN  IF tile1 = nullptr \/ ~HasNode(tile1, endnode.id)
        THEN GS(InvalidGraphId, TRUE, loads1, FALSE, steps, nullptr)
        ELSE
          LET nodeinfo == node(tile1, endnode.id)
              idx == nodeinfo.edge_index + store.edge[cont_de].opp_index
              edgeid1 == GraphId(endnode.tileid, endnode.level, idx)
          IN  IF ~HasEdge(tile1, idx)
              THEN GS(InvalidGraphId, TRUE, loads1, FALSE, steps, nullptr)
              ELSE IF directededge(tile1, idx).superseded # 0
              THEN GS(GraphId(endnode.tileid, endnode.level,
                              ShortcutIndex(nodeinfo.edge_index,
                                            directededge(tile1, idx).superseded)),
                      FALSE, loads1, FALSE, steps, edgeid1)
              ELSE IF edgeid1 \in seen
              THEN GS(InvalidGraphId, FALSE, loads1, TRUE, steps, nullptr)
              ELSE GetShortcutWalk(tile1, edgeid1,
                                   continuing_edge(tile1, edgeid1, nodeinfo),
                                   seen \cup {edgeid1}, loads1,
                                   Append(steps, [node |-> set_id(tile1, endnode.id),
                                                  arrived |-> edgeid1]))

\* the first pass: cont_de is the opposing edge of id
GetShortcutFirst(id, tile, o) ==
  IF o.fault THEN GS(InvalidGraphId, TRUE, {tile} \cup o.loads, FALSE, <<>>, nullptr)
  ELSE GetShortcutWalk(tile, id, o.de, {}, {tile} \cup o.loads, <<>>)

\* GraphReader::GetShortcut
GetShortcut(id) ==
  IF id.level >= LocalLevel THEN GS(InvalidGraphId, FALSE, {}, FALSE, <<>>, nullptr)
  ELSE
    IF GetGraphTile(id) = nullptr \/ ~HasEdge(GetGraphTile(id), id.id)
    THEN GS(InvalidGraphId, TRUE, {}, FALSE, <<>>, nullptr)
    ELSE IF store.edge[id].is_shortcut
    THEN GS(id, FALSE, {Tile_Base(id)}, FALSE, <<>>, nullptr)
    ELSE GetShortcutFirst(id, Tile_Base(id), GetOpposingEdge(id))

(***************************************************************************)
(* RecoverShortcut.                                                        *)
(***************************************************************************)
\* GraphReader::edge_startnode(edgeid): the end node of the opposing edge
edge_startnode(edgeid) ==
  LET o == GetOpposingEdgeId(edgeid)
  IN  IF o.fault THEN [id |-> InvalidGraphId, fault |-> TRUE, loads |-> o.loads]
      ELSE IF ~Is_Valid(o.id) THEN [id |-> InvalidGraphId, fault |-> FALSE, loads |-> o.loads]
      ELSE LET t == GetGraphTile2(o.id, o.tile)
           IN  IF t = nullptr THEN [id |-> InvalidGraphId, fault |-> FALSE, loads |-> o.loads]
               ELSE IF ~HasEdge(t, o.id.id)
               THEN [id |-> InvalidGraphId, fault |-> TRUE, loads |-> o.loads \cup {t}]
               ELSE [id |-> directededge(t, o.id.id).endnode, fault |-> FALSE,
                     loads |-> o.loads \cup {t}]

\* tile->GetDirectedEdges(node_index): the indices of the node's edges, in order
GetDirectedEdges(tile, node_index) ==
  LET nd == node(tile, node_index)
  IN  nd.edge_index..(nd.edge_index + nd.edge_count - 1)

\* the least index of a nonempty set of edge indices: the first in edge order
First(S) == CHOOSE i \in S : \A j \in S : i <= j

\* the test an edge leaving a node of the walk must pass to be kept
Matches(begin_node, edge, shortcut) ==
  /\ begin_node # edge.endnode
  /\ ~edge.is_shortcut
  /\ BitAnd(edge.forwardaccess, kAutoAccess) # 0
  /\ edge.sign = shortcut.sign
  /\ edge.use = shortcut.use
  /\ edge.classification = shortcut.classification
  /\ edge.roundabout = shortcut.roundabout
  /\ edge.link = shortcut.link
  /\ edge.toll = shortcut.toll
  /\ edge.destonly = shortcut.destonly
  /\ edge.unpaved = shortcut.unpaved
  /\ edge.surface = shortcut.surface

\* variant: the last match in edge order
PickMatch_last(S) == CHOOSE i \in S : \A j \in S : i >= j

\* the loop over the node's edges breaks at the first match
PickMatch(S) == First(S)

RS(v, fault, loads, diverges, walk) ==
  [v |-> v, fault |-> fault, loads |-> loads, diverges |-> diverges, walk |-> walk]

RECURSIVE RecoverWalk(_, _, _, _, _, _, _, _, _)
\* the while loop: current_edge (an edge id), its tile, begin_node, the
\* accumulated length, the edges kept so far
RecoverWalk(shortcut_id, tile, current_edge, begin_node, accumulated_length, edges, seen, loads, walk) ==
  LET shortcut == store.edge[shortcut_id]
      cur == store.edge[current_edge]
  IN  IF cur.endnode = shortcut.endnode
      THEN IF accumulated_length < shortcut.length
           THEN RS(<<shortcut_id>>, FALSE, loads, FALSE, walk)
           ELSE RS(edges, FALSE, loads, FALSE, walk)
      ELSE
        LET tile1 == GetGraphTile2(cur.endnode, tile)
            loads1 == loads \cup ({tile1} \ {nullptr})
        IN  IF tile1 = nullptr THEN RS(<<shortcut_id>>, FALSE, loads1, FALSE, walk)
            ELSE IF ~HasNode(tile1, cur.endnode.id)
            THEN RS(<<shortcut_id>>, TRUE, loads1, FALSE, walk)
            ELSE
              LET node_index == cur.endnode.id
                  cands == {i \in GetDirectedEdges(tile1, node_index) :
                              Matches(begin_node, directededge(tile1, i), shortcut)}
                  walk1 == Append(walk, [node |-> set_id(tile1, node_index),
                                         begin_node |-> begin_node])
              IN  IF cands = {} THEN RS(<<shortcut_id>>, FALSE, loads1, FALSE, walk1)
                  ELSE
                    LET next == set_id(tile1, PickMatch(cands))
                        acc == accumulated_length + store.edge[next].length
                    IN  IF acc > shortcut.length
                        THEN RS(<<shortcut_id>>, FALSE, loads1, FALSE, walk1)
                        ELSE IF <<next, acc>> \in seen
                        THEN RS(<<shortcut_id>>, FALSE, loads1, TRUE, walk1)
                        ELSE RecoverWalk(shortcut_id, tile1, next,
                                         set_id(tile1, node_index), acc,
                                         Append(edges, next), seen \cup {<<next, acc>>},
                                         loads1, walk1)

\* GraphReader::RecoverShortcut
RecoverShortcut(shortcut_id) ==
  LET tile == GetGraphTile(shortcut_id)
  IN  IF tile = nullptr \/ ~HasEdge(tile, shortcut_id.id)
      THEN RS(<<shortcut_id>>, TRUE, {}, FALSE, <<>>)
      ELSE IF ~directededge(tile, shortcut_id.id).is_shortcut
      THEN RS(<<shortcut_id>>, FALSE, {tile}, FALSE, <<>>)
      ELSE
        LET shortcut == directededge(tile, shortcut_id.id)
            b == edge_startnode(shortcut_id)
            begin_node == b.id
            loads == {tile} \cup b.loads
        IN  IF b.fault THEN RS(<<shortcut_id>>, TRUE, loads, FALSE, <<>>)
            ELSE IF ~Is_Valid(begin_node) THEN RS(<<shortcut_id>>, FALSE, loads, FALSE, <<>>)
            ELSE IF ~HasNode(tile, begin_node.id) THEN RS(<<shortcut_id>>, TRUE, loads, FALSE, <<>>)
            ELSE
              LET sup == {i \in GetDirectedEdges(tile, begin_node.id) :
                            BitAnd(shortcut.shortcut, directededge(tile, i).superseded) # 0}
              IN  IF sup = {} THEN RS(<<shortcut_id>>, FALSE, loads, FALSE, <<>>)
                  ELSE LET first == set_id(tile, First(sup))
                       IN  RecoverWalk(shortcut_id, tile, first, begin_node,
                                       store.edge[first].length, <<first>>,
                                       {<<first, store.edge[first].length>>}, loads, <<>>)

(***************************************************************************)
(* The caller: one call at a time.                                         *)
(***************************************************************************)
\* what a call that dereferenced a null pointer may hand back, if anything
Undefined(c) ==
  CASE c.op \in {"AreEdgesConnected", "AreEdgesConnectedForward"} -> BOOLEAN
    [] c.op = "GetEdgeDensity" -> {0, 1}
    [] c.op = "GetDirectedEdgeNodes" -> {<<InvalidGraphId, InvalidGraphId>>, <<c.e1, c.e1>>}
    [] c.op = "RecoverShortcut" -> {<<>>, <<c.e1>>}
    [] OTHER -> {InvalidGraphId, c.e1}

\* what a result carries besides its value: the tile out-parameter, and the
\* record of the nodes a walk visited
Extra(r) == [k \in DOMAIN r \ {"v", "fault", "loads", "diverges"} |-> r[k]]

\* the call ends: it returns r.v, or after a fault anything may happen; a
\* call whose loop comes back to a state it was in stays in the loop
Finish(c, r) ==
  /\ pc = "idle"
  /\ call' = c
  /\ cache' = cache \cup r.loads
  /\ UNCHANGED <<store, bbVars, tVars>>
  /\ IF "diverges" \in DOMAIN r /\ r.diverges
     THEN /\ pc' = "looping"
          /\ res' = [op |-> c.op, fault |-> FALSE]
     ELSE IF r.fault
     THEN \/ /\ pc' = "crashed"
             /\ res' = [op |-> c.op, fault |-> TRUE]
          \/ /\ pc' = "ret"
             /\ \E v \in Undefined(c) :
                  res' = [op |-> c.op, fault |-> TRUE, ret |-> v] @@ Extra(r)
     ELSE /\ pc' = "ret"
          /\ res' = [op |-> c.op, fault |-> FALSE, ret |-> r.v] @@ Extra(r)

\* the returned id as the value, the tile out-parameter beside it
WithTile(r) == [v |-> r.id, fault |-> r.fault, loads |-> r.loads, tile |-> r.tile]

CallGetOpposingEdgeId ==
  \E e \in EdgeIds :
    Finish([op |-> "GetOpposingEdgeId", e1 |-> e], WithTile(GetOpposingEdgeId(e)))

CallAreEdgesConnected ==
  \E e1 \in EdgeIds, e2 \in EdgeIds :
    Finish([op |-> "AreEdgesConnected", e1 |-> e1, e2 |-> e2], AreEdgesConnected(e1, e2))

CallAreEdgesConnectedForward ==
  \E e1 \in EdgeIds, e2 \in EdgeIds :
    Finish([op |-> "AreEdgesConnectedForward", e1 |-> e1, e2 |-> e2],
           AreEdgesConnectedForward(e1, e2))

CallGetEdgeDensity ==
  \E e \in EdgeIds :
    Finish([op |-> "GetEdgeDensity", e1 |-> e], GetEdgeDensity(e))

\* the caller holds the edge's tile
CallGetDirectedEdgeNodes ==
  \E e \in EdgeIds :
    /\ GetGraphTile(e) # nullptr
    /\ Finish([op |-> "GetDirectedEdgeNodes", e1 |-> e],
              WithLoads({Tile_Base(e)}, GetDirectedEdgeNodes(Tile_Base(e), e)))

CallGetShortcut ==
  \E e \in EdgeIds : Finish([op |-> "GetShortcut", e1 |-> e], GetShortcut(e))

CallRecoverShortcut ==
  \E e \in EdgeIds : Finish([op |-> "RecoverShortcut", e1 |-> e], RecoverShortcut(e))

\* the caller takes the result
Return ==
  /\ pc = "ret"
  /\ pc' = "idle"
  /\ call' = [op |-> "none"]
  /\ res' = [op |-> "none"]
  /\ UNCHANGED <<store, cache, bbVars, tVars>>

(***************************************************************************)
(* GetMinimumBoundingBox, one step per statement of its loop over the      *)
(* tiles of the cover.                                                     *)
(***************************************************************************)
\* TileHierarchy::GetGraphIds(bb): the tiles a box intersects, in id order
TileOrder == <<TileA, TileB, TileL, TileT>>

Covers == {SubSeq(TileOrder, i, j) : i, j \in 1..Len(TileOrder)} \ {<<>>}

\* GraphTileCache::OverCommitted: the estimate exceeds the ceiling
OverCommitted == Cardinality(cache) > MaxCacheTiles

\* GraphTileCache::Trim: evicts, by any policy, down to the ceiling or below
TrimResults == {c \in SUBSET cache : Cardinality(c) <= MaxCacheTiles}

\* the nodes of the tile and the edges that leave them
Scanned(tile, inside) ==
  LET ns == {n \in NodeIds : Tile_Base(n) = tile /\ n \in inside}
  IN  [nodes |-> ns,
       edges |-> {e \in EdgeIds : Tile_Base(e) = tile /\
                    \E n \in ns : InEdgeRange(tile, n, e)}]

CallGetMinimumBoundingBox ==
  /\ pc = "idle"
  /\ \E ids \in Covers, inside \in {NodeIds, {}} :
       call' = [op |-> "GetMinimumBoundingBox", ids |-> ids, inside |-> inside]
       /\ bbIds' = ids
  /\ bbTile' = nullptr
  /\ bbBox' = [nodes |-> {}, edges |-> {}]
  /\ bbTrims' = 0
  /\ pc' = "bb_check"
  /\ UNCHANGED <<store, cache, res, tVars>>

\* variant: no overcommit check
BBCheck_NoTrim ==
  /\ pc = "bb_check"
  /\ pc' = "bb_fetch"
  /\ UNCHANGED <<store, cache, call, res, bbVars, tVars>>

\* if (OverCommitted()) ...
BBCheck ==
  /\ pc = "bb_check"
  /\ pc' = IF OverCommitted THEN "bb_trim" ELSE "bb_fetch"
  /\ UNCHANGED <<store, cache, call, res, bbVars, tVars>>

\* ... Trim();
BBTrim ==
  /\ pc = "bb_trim"
  /\ cache' \in TrimResults
  /\ bbTrims' = bbTrims + 1
  /\ pc' = "bb_fetch"
  /\ UNCHANGED <<store, call, res, bbIds, bbTile, bbBox, tVars>>

\* const auto* tile = GetGraphTile(tile_id);
BBFetch ==
  /\ pc = "bb_fetch"
  /\ bbTile' = GetGraphTile(Head(bbIds))
  /\ cache' = cache \cup ({GetGraphTile(Head(bbIds))} \ {nullptr})
  /\ pc' = "bb_scan"
  /\ UNCHANGED <<store, call, res, bbIds, bbBox, bbTrims, tVars>>

\* the loop over the tile's nodes; then the next tile, or the return
BBScan ==
  /\ pc = "bb_scan"
  /\ UNCHANGED <<store, cache, call, tVars>>
  /\ bbTile' = nullptr
  /\ bbIds' = Tail(bbIds)
  /\ IF bbTile # nullptr /\ bbTile \notin cache
     THEN /\ pc' = "crashed"
          /\ res' = [op |-> call.op, fault |-> TRUE]
          /\ UNCHANGED <<bbBox, bbTrims>>
     ELSE LET got == IF bbTile = nullptr THEN [nodes |-> {}, edges |-> {}]
                     ELSE Scanned(bbTile, call.inside)
              box == [nodes |-> bbBox.nodes \cup got.nodes,
                      edges |-> bbBox.edges \cup got.edges]
          IN  IF Tail(bbIds) = <<>>
              THEN /\ pc' = "ret"
                   /\ res' = [op |-> call.op, fault |-> FALSE, ret |-> box]
                   /\ bbBox' = [nodes |-> {}, edges |-> {}]
                   /\ bbTrims' = 0
              ELSE /\ pc' = "bb_check"
                   /\ bbBox' = box
                   /\ UNCHANGED <<res, bbTrims>>

Init ==
  /\ store \in Stores
  /\ cache = {}
  /\ pc = "idle"
  /\ call = [op |-> "none"]
  /\ res = [op |-> "none"]
  /\ bbIds = <<>>
  /\ bbTile = nullptr
  /\ bbBox = [nodes |-> {}, edges |-> {}]
  /\ bbTrims = 0
  /\ tiles = nullptr
  /\ gen = nullptr

Next ==
  \/ CallGetOpposingEdgeId
  \/ CallAreEdgesConnected
  \/ CallAreEdgesConnectedForward
  \/ CallGetEdgeDensity
  \/ CallGetDirectedEdgeNodes
  \/ CallGetShortcut
  \/ CallRecoverShortcut
  \/ Return
  \/ CallGetMinimumBoundingBox
  \/ BBCheck
  \/ BBTrim
  \/ BBFetch
  \/ BBScan

Spec == Init /\ [][Next]_vars

(***************************************************************************)
(* What the tiles say, read off the storage directly: the reference the    *)
(* properties below compare the reader's answers with.                     *)
(***************************************************************************)
\* every tile of the graph can be loaded
AllTilesLoad == \A n \in NodeIds : Tile_Base(n) \in store.present

\* the node an edge leaves: the node of its tile whose edge range holds it
BeginNode(e) ==
  CHOOSE n \in NodeIds :
    /\ Tile_Base(n) = Tile_Base(e)
    /\ store.node[n].edge_index <= e.id
    /\ e.id < store.node[n].edge_index + store.node[n].edge_count

EndNode(e) == store.edge[e].endnode

\* n has a transition to m
Transition(n, m) ==
  \E i \in DOMAIN store.node[n].transitions : store.node[n].transitions[i] = m

\* the same node, or two nodes joined by a cross-level transition
Linked(n, m) == n = m \/ Transition(n, m) \/ Transition(m, n)

\* whether the opposing edge of e can be had: e can be read, is no transit
\* line, and the tile of its end node loads
OpposingAvailable(e) ==
  /\ Tile_Base(e) \in store.present
  /\ ~IsTransitLine(store.edge[e])
  /\ Tile_Base(EndNode(e)) \in store.present

\* the end nodes of e and of its opposing edge
Ends(e) == {EndNode(e)} \cup (IF OpposingAvailable(e) THEN {BeginNode(e)} ELSE {})

RECURSIVE SumLength(_)
SumLength(es) ==
  IF es = <<>> THEN 0 ELSE store.edge[Head(es)].length + SumLength(Tail(es))

\* the base edges of the chain n0 -> ... -> nN, in travel order
ChainLength ==
  Cardinality({e \in EdgeIds : store.edge[e].edgeinfo_offset[1] = "e" /\ store.edge[e].forward})

ChainEdges ==
  [i \in 1..ChainLength |->
     CHOOSE e \in EdgeIds :
       store.edge[e].edgeinfo_offset = <<"e", i>> /\ store.edge[e].forward]

\* the shortcut n0 -> nN over them
ChainShortcut ==
  CHOOSE e \in EdgeIds : store.edge[e].edgeinfo_offset = <<"S", 0>> /\ store.edge[e].forward

\* nothing branches off the chain, the base edges add up to the shortcut
WellFormedChain ==
  /\ AllTilesLoad
  /\ \E e \in EdgeIds : store.edge[e].edgeinfo_offset = <<"S", 0>>
  /\ \A e \in EdgeIds : store.edge[e].edgeinfo_offset[1] # "br"
  /\ SumLength(ChainEdges) = store.edge[ChainShortcut].length

\* the edges a walk of GetShortcut may continue on at node n, having arrived
\* on the edge arrived
Continuing(n, arrived) ==
  {e \in EdgeIds :
     /\ BeginNode(e) = n
     /\ e # arrived
     /\ ~store.edge[e].is_shortcut
     /\ store.edge[e].use \notin {"kTransitConnection", "kEgressConnection",
                                   "kPlatformConnection"}}

\* the edges leaving n that carry the fingerprint of the shortcut sc, for a
\* walk of RecoverShortcut that came from node prev
Candidates(n, prev, sc) ==
  {e \in EdgeIds : BeginNode(e) = n /\ Matches(prev, store.edge[e], store.edge[sc])}

Returned(op) == pc = "ret" /\ call.op = op

(***************************************************************************)
(* Properties.                                                             *)
(***************************************************************************)
\* C1: with every tile loadable, AreEdgesConnectedForward(e1, e2) is true iff
\* e2 leaves e1's end node, or the node a transition of e1's end node leads
\* to on e2's level; an e2 of another tile or level whose index falls in the
\* node's edge range is not connected.
C1_ForwardIffLeavesEndNode ==
  (Returned("AreEdgesConnectedForward") /\ AllTilesLoad) =>
    /\ ~res.fault
    /\ res.ret = (\/ BeginNode(call.e2) = EndNode(call.e1)
                  \/ Transition(EndNode(call.e1), BeginNode(call.e2)))

\* C2: the opposing edge of the opposing edge of a non-transit edge whose
\* tiles load is the edge itself: same level, tile and index.
C2_OpposingIsInvolution ==
  (Returned("GetOpposingEdgeId") /\ OpposingAvailable(call.e1)) =>
    GetOpposingEdgeId(res.ret).id = call.e1

\* C2 witness: the involution on an edge that leaves its tile
C2_LeavesTileAndBack ==
  /\ Returned("GetOpposingEdgeId")
  /\ OpposingAvailable(call.e1)
  /\ store.edge[call.e1].leaves_tile
  /\ Tile_Base(res.ret) # Tile_Base(call.e1)
  /\ GetOpposingEdgeId(res.ret).id = call.e1

\* C3: on a well-formed chain, for any position of the shortcut among its
\* begin node's edges, GetShortcut of every base edge is the shortcut and
\* RecoverShortcut of the shortcut is the base edges in travel order, their
\* lengths adding up to the shortcut's.
C3_ShortcutRoundTrip ==
  (pc = "ret" /\ WellFormedChain) =>
    /\ (call.op = "GetShortcut" /\ (\E i \in 1..ChainLength : ChainEdges[i] = call.e1))
         => res.ret = ChainShortcut
    /\ (call.op = "RecoverShortcut" /\ call.e1 = ChainShortcut)
         => (res.ret = ChainEdges /\ SumLength(res.ret) = store.edge[ChainShortcut].length)

C5_RecoveredChainIsExact ==
  (/\ Returned("RecoverShortcut")
   /\ ~res.fault
   /\ store.edge[call.e1].is_shortcut
   /\ res.ret # <<call.e1>>) =>
    /\ Len(res.ret) >= 1
    /\ BeginNode(res.ret[1]) = BeginNode(call.e1)
    /\ BitAnd(store.edge[call.e1].shortcut, store.edge[res.ret[1]].superseded) # 0
    /\ \A k \in 2..Len(res.ret) : BeginNode(res.ret[k]) = EndNode(res.ret[k - 1])
    /\ EndNode(res.ret[Len(res.ret)]) = EndNode(call.e1)
    /\ SumLength(res.ret) = store.edge[call.e1].length

\* C6: no operation dereferences a null tile or a null edge: a missing tile
\* or an unavailable opposing edge gives the sentinel result.
C6_AbsenceIsNeverAFault ==
  /\ pc # "crashed"
  /\ pc = "ret" => ~res.fault

\* C7: AreEdgesConnected(e1, e2) is true exactly when an end node of e1 or of
\* its opposing edge and an end node of e2 or of its opposing edge are the
\* same node or joined by a transition; the answer for (e2, e1) is the same.
C7_ConnectedIffEndsLinked ==
  (call.op = "AreEdgesConnected" /\ pc # "idle") =>
    /\ pc = "ret"
    /\ res.ret = (\E n \in Ends(call.e1), m \in Ends(call.e2) : Linked(n, m))
    /\ res.ret = AreEdgesConnected(call.e2, call.e1).v

\* C8: GetShortcut returns its input when that is a shortcut, the invalid id
\* on the local level and the levels past it, and the invalid id when at a
\* node of the backward walk not exactly one continuing edge remains.
C8_GetShortcutSentinels ==
  (Returned("GetShortcut") /\ ~res.fault) =>
    /\ store.edge[call.e1].is_shortcut => res.ret = call.e1
    /\ call.e1.level >= LocalLevel => res.ret = InvalidGraphId
    /\ (\E k \in DOMAIN res.steps :
          Cardinality(Continuing(res.steps[k].node, res.steps[k].arrived)) # 1)
         => res.ret = InvalidGraphId

\* C8 witness: the walk stops at a node with two continuing edges
C8_StopsAtBranch ==
  /\ Returned("GetShortcut")
  /\ ~res.fault
  /\ res.ret = InvalidGraphId
  /\ \E k \in DOMAIN res.steps :
       Cardinality(Continuing(res.steps[k].node, res.steps[k].arrived)) > 1

\* C9: GetOpposingEdgeId(e) is the invalid id when e's tile is missing, e is a
\* transit line, or the tile of e's end node does not load; else it is the
\* id on the end node's level and tile with index edge_index + opp_index,
\* and the tile handed back is the end node's.
C9_OpposingEdgeId ==
  (call.op = "GetOpposingEdgeId" /\ pc # "idle") =>
    /\ pc = "ret"
    /\ ~res.fault
    /\ IF OpposingAvailable(call.e1)
       THEN /\ res.ret = GraphId(EndNode(call.e1).tileid, EndNode(call.e1).level,
                                 store.node[EndNode(call.e1)].edge_index
                                   + store.edge[call.e1].opp_index)
            /\ res.tile = Tile_Base(EndNode(call.e1))
       ELSE res.ret = InvalidGraphId

\* C9 witness: a valid id in another tile than e's, that tile handed back
C9_OpposingInOtherTile ==
  /\ Returned("GetOpposingEdgeId")
  /\ Is_Valid(res.ret)
  /\ res.tile # Tile_Base(call.e1)
  /\ res.tile = Tile_Base(res.ret)

\* C10: in GetMinimumBoundingBox no tile is fetched while the cache is
\* overcommitted, no tile pointer is held across Trim(), and the tile that
\* is scanned is still in the cache.
C10_TrimBeforeFetch ==
  /\ pc = "bb_fetch" => ~OverCommitted
  /\ pc = "bb_trim" => bbTile = nullptr
  /\ pc = "bb_scan" => (bbTile = nullptr \/ bbTile \in cache)
  /\ call.op = "GetMinimumBoundingBox" => pc # "crashed"

\* C10 witness: a tile fetched after a Trim() is about to be scanned
C10_ScanAfterTrim == pc = "bb_scan" /\ bbTrims > 0 /\ bbTile # nullptr /\ bbTile \in cache

(***************************************************************************)
(* Tiles<coord_t>: a box cut into nrows x ncolumns tiles, each tile into   *)
(* nsubdivisions x nsubdivisions bins.  Coordinates are counted in half    *)
(* bins from the box's minimum corner, so that a point can lie inside a    *)
(* bin, on the line between two bins or on a corner.                       *)
(***************************************************************************)
MaxRows == 2

MaxColumns == 3

MaxSubdivisions == 2

\* the most bins a grid has in all
MaxBins == 8

\* Tiles(bounds, tile_size, subdivisions)
Grids ==
  {g \in [nrows : 1..MaxRows, ncolumns : 1..MaxColumns,
          nsubdivisions : 1..MaxSubdivisions] :
     g.nrows * g.ncolumns * g.nsubdivisions * g.nsubdivisions <= MaxBins}

TileCount == tiles.nrows * tiles.ncolumns

\* bins along the x axis and along the y axis of the whole box
subcols == tiles.ncolumns * tiles.nsubdivisions

subrows == tiles.nrows * tiles.nsubdivisions

\* variant: the row counted in rows
TileId_ByRows(col, row) == row * tiles.nrows + col

\* int32_t TileId(const int32_t col, const int32_t row)
TileId(col, row) == row * tiles.ncolumns + col

\* std::pair<int32_t, int32_t> GetRowColumn(const int32_t tileid): row first
GetRowColumn(tileid) == <<tileid \div tiles.ncolumns, tileid % tiles.ncolumns>>

\* a call of a Tiles member returns v
TFinish(c, v) ==
  /\ pc = "idle"
  /\ tiles # nullptr
  /\ gen = nullptr
  /\ call' = c
  /\ res' = [op |-> c.op, fault |-> FALSE, ret |-> v]
  /\ pc' = "ret"
  /\ UNCHANGED <<store, cache, bbVars, tVars>>

CallGetRowColumn ==
  \E id \in 0..(TileCount - 1) :
    TFinish([op |-> "GetRowColumn", id |-> id], GetRowColumn(id))

CallTileId ==
  \E row \in 0..(tiles.nrows - 1), col \in 0..(tiles.ncolumns - 1) :
    TFinish([op |-> "TileId", row |-> row, col |-> col], TileId(col, row))

(***************************************************************************)
(* ClosestFirst(seed): a functor that hands out the bins of the grid, the  *)
(* closest to the seed first.  A bin is named by its global index          *)
(* sy * subcols + sx.                                                      *)
(***************************************************************************)
Subdivisions == 0..(subcols * subrows - 1)

\* the points a caller may pass: on the half-bin lattice, inside the box, on
\* its border or just outside
Points == {<<x, y>> : x \in (-1)..(2 * subcols + 1), y \in (-1)..(2 * subrows + 1)}

Sq(a) == a * a

Max(a, b) == IF a >= b THEN a ELSE b

Min(a, b) == IF a <= b THEN a ELSE b

\* variant: the offsets to the bin's minimum corner, with their sign
Distance_Signed(p, sub) ==
  (2 * (sub % subcols) - p[1]) + (2 * (sub \div subcols) - p[2])

\* squared distance from p to the nearest point of the bin's rectangle
Distance(p, sub) ==
  Sq(Max(0, Max(2 * (sub % subcols) - p[1], p[1] - (2 * (sub % subcols) + 2))))
  + Sq(Max(0, Max(2 * (sub \div subcols) - p[2], p[2] - (2 * (sub \div subcols) + 2))))

\* the bin that holds p, p clamped into the box first
SeedOf(p) ==
  Min(Max(p[2], 0) \div 2, subrows - 1) * subcols + Min(Max(p[1], 0) \div 2, subcols - 1)

\* the bins next to a bin: left, right, below, above
neighbors(sub) ==
  {t \in {sub - 1, sub + 1} : t \in Subdivisions /\ t \div subcols = sub \div subcols}
  \cup {t \in {sub - subcols, sub + subcols} : t \in Subdivisions}

\* the head of the queue: least distance, then least index
Best(p, queue) ==
  CHOOSE sub \in queue :
    \A t \in queue :
      \/ Distance(p, sub) < Distance(p, t)
      \/ Distance(p, sub) = Distance(p, t) /\ sub <= t

\* (tile, bin within the tile, distance) of a bin
Yield(p, sub) ==
  <<TileId((sub % subcols) \div tiles.nsubdivisions, (sub \div subcols) \div tiles.nsubdivisions),
    ((sub \div subcols) % tiles.nsubdivisions) * tiles.nsubdivisions
      + ((sub % subcols) % tiles.nsubdivisions),
    Distance(p, sub)>>
\* auto c = t.ClosestFirst(p): the seed's bin is queued
CallClosestFirst ==
  /\ pc = "idle"
  /\ tiles # nullptr
  /\ gen = nullptr
  /\ \E p \in Points :
       gen' = [p |-> p, queue |-> {SeedOf(p)}, queued |-> {SeedOf(p)}, out |-> <<>>]
  /\ UNCHANGED <<store, cache, pc, call, res, bbVars, tiles>>

\* the functor after it handed out the bin best: the bin's neighbours that
\* were never queued are queued
Popped(g, best) ==
  [g EXCEPT !.queue = (@ \ {best}) \cup (neighbors(best) \ g.queued),
            !.queued = @ \cup neighbors(best),
            !.out = Append(@, Yield(g.p, best))]

\* c(): the next bin, or std::runtime_error when no bin is left
CallClosestNext ==
  /\ pc = "idle"
  /\ gen # nullptr
  /\ call' = [op |-> "ClosestFirst"]
  /\ IF gen.queue = {}
     THEN /\ pc' = "thrown"
          /\ res' = [op |-> "ClosestFirst", fault |-> FALSE, what |-> "runtime_error"]
          /\ gen' = gen
     ELSE /\ pc' = "ret"
          /\ gen' = Popped(gen, Best(gen.p, gen.queue))
          /\ res' = [op |-> "ClosestFirst", fault |-> FALSE,
                     ret |-> Yield(gen.p, Best(gen.p, gen.queue))]
  /\ UNCHANGED <<store, cache, bbVars, tiles>>

\* the caller catches the exception; the functor goes out of scope
Catch ==
  /\ pc = "thrown"
  /\ pc' = "idle"
  /\ call' = [op |-> "none"]
  /\ res' = [op |-> "none"]
  /\ gen' = nullptr
  /\ UNCHANGED <<store, cache, bbVars, tiles>>

(***************************************************************************)
(* Intersect(linestring): the bins a polyline runs through, per tile.  A   *)
(* bin is named here by its column and row in the whole box, <<sx, sy>>;   *)
(* it holds the points p with 2 sx <= p[1] < 2 sx + 2, and so for y.       *)
(***************************************************************************)
\* the polylines a caller may pass: no point, one point, one segment
Linestrings == UNION {[1..n -> Points] : n \in {0, 1, 2}}

Abs(a) == IF a >= 0 THEN a ELSE -a

Sign(a) == IF a > 0 THEN 1 ELSE IF a < 0 THEN -1 ELSE 0

\* the bin that holds a point; outside the box it is a bin of the same
\* lattice continued
BinOf(p) == <<p[1] \div 2, p[2] \div 2>>

InGrid(bin) == bin[1] \in 0..(subcols - 1) /\ bin[2] \in 0..(subrows - 1)

\* the next lattice line ahead of bin index k, going from coordinate from
\* to coordinate to
LineAhead(k, from, to) == IF to > from THEN 2 * (k + 1) ELSE 2 * k

\* variant: the nearer line is crossed first, whatever the slope
Sooner_NoSlope(ax, ay, a, b) ==
  IF ax <= ay THEN "x" ELSE "y"

\* which line the segment a -> b crosses first, ax and ay being the
\* distances along x and y from a to the next lines; through a corner the
\* walk goes by the bin that holds the corner point
Sooner(ax, ay, a, b) ==
  IF ax * Abs(b[2] - a[2]) < ay * Abs(b[1] - a[1]) THEN "x"
  ELSE IF ay * Abs(b[1] - a[1]) < ax * Abs(b[2] - a[2]) THEN "y"
  ELSE IF (b[1] > a[1]) = (b[2] > a[2]) THEN "xy"
  ELSE IF b[1] > a[1] THEN "x" ELSE "y"

\* the axis of the next step of the walk from bin on the way a -> b
WhichStep(bin, a, b) ==
  IF bin[2] = BinOf(b)[2] THEN "x"
  ELSE IF bin[1] = BinOf(b)[1] THEN "y"
  ELSE Sooner(Abs(LineAhead(bin[1], a[1], b[1]) - a[1]),
              Abs(LineAhead(bin[2], a[2], b[2]) - a[2]), a, b)

Stepped(bin, w, a, b) ==
  <<bin[1] + (IF w \in {"x", "xy"} THEN Sign(b[1] - a[1]) ELSE 0),
    bin[2] + (IF w \in {"y", "xy"} THEN Sign(b[2] - a[2]) ELSE 0)>>

\* the bins from bin to b's bin along the segment a -> b, one step at a time
RECURSIVE Walk(_, _, _, _)
Walk(bin, a, b, acc) ==
  IF bin = BinOf(b) THEN acc \cup {bin}
  ELSE Walk(Stepped(bin, WhichStep(bin, a, b), a, b), a, b, acc \cup {bin})

\* the segments of a polyline; a single point is a segment of no length
Segments(l) ==
  IF Len(l) = 1 THEN {<<l[1], l[1]>>} ELSE {<<l[k], l[k + 1]>> : k \in 1..(Len(l) - 1)}

WalkedBins(l) == {bin \in UNION {Walk(BinOf(sg[1]), sg[1], sg[2], {}) : sg \in Segments(l)} : InGrid(bin)}

TileOfBin(bin) == TileId(bin[1] \div tiles.nsubdivisions, bin[2] \div tiles.nsubdivisions)

SubdivisionOfBin(bin) ==
  (bin[2] % tiles.nsubdivisions) * tiles.nsubdivisions + (bin[1] % tiles.nsubdivisions)

\* the map from tile id to the set of its bins
AsMap(bins) ==
  [t \in {TileOfBin(bin) : bin \in bins} |->
     {SubdivisionOfBin(bin) : bin \in {c \in bins : TileOfBin(c) = t}}]

Intersect(l) == AsMap(WalkedBins(l))

Reversed(l) == [k \in 1..Len(l) |-> l[Len(l) + 1 - k]]

CallIntersect ==
  \E l \in Linestrings : TFinish([op |-> "Intersect", l |-> l], Intersect(l))

\* a grid, and no GraphReader in play
InitTiles ==
  /\ tiles \in Grids
  /\ gen = nullptr
  /\ store = [present |-> {}, node |-> <<>>, edge |-> <<>>]
  /\ cache = {}
  /\ pc = "idle"
  /\ call = [op |-> "none"]
  /\ res = [op |-> "none"]
  /\ bbIds = <<>>
  /\ bbTile = nullptr
  /\ bbBox = [nodes |-> {}, edges |-> {}]
  /\ bbTrims = 0

NextTiles ==
  \/ CallGetRowColumn
  \/ CallTileId
  \/ CallIntersect
  \/ CallClosestFirst
  \/ CallClosestNext
  \/ Catch
  \/ Return

SpecTiles == InitTiles /\ [][NextTiles]_vars

C12_RowColumnRoundTrip ==
  /\ Returned("GetRowColumn") =>
       /\ res.ret[1] \in 0..(tiles.nrows - 1)
       /\ res.ret[2] \in 0..(tiles.ncolumns - 1)
       /\ TileId(res.ret[2], res.ret[1]) = call.id
  /\ Returned("TileId") =>
       /\ res.ret \in 0..(TileCount - 1)
       /\ GetRowColumn(res.ret) = <<call.row, call.col>>

\* C12 witness: a tile off the first row and the first column of a grid with
\* more columns than rows
C12_TileOffTheAxes ==
  /\ Returned("GetRowColumn")
  /\ tiles.nrows < tiles.ncolumns
  /\ res.ret[1] > 0
  /\ res.ret[2] > res.ret[1]

\* which side of the line a -> b the point q lies on
Cross(a, b, q) == (b[1] - a[1]) * (q[2] - a[2]) - (b[2] - a[2]) * (q[1] - a[1])

Corners(bin) ==
  {<<2 * bin[1] + i, 2 * bin[2] + j>> : i \in {0, 2}, j \in {0, 2}}

\* the segment a -> b has a point in the bin's rectangle, border included
TouchesBin(a, b, bin) ==
  /\ Max(a[1], b[1]) >= 2 * bin[1] /\ Min(a[1], b[1]) <= 2 * bin[1] + 2
  /\ Max(a[2], b[2]) >= 2 * bin[2] /\ Min(a[2], b[2]) <= 2 * bin[2] + 2
  /\ \E q \in Corners(bin) : Cross(a, b, q) >= 0
  /\ \E q \in Corners(bin) : Cross(a, b, q) <= 0

\* the segment a -> b has a point inside the bin's rectangle
CrossesBin(a, b, bin) ==
  /\ Max(a[1], b[1]) > 2 * bin[1] /\ Min(a[1], b[1]) < 2 * bin[1] + 2
  /\ Max(a[2], b[2]) > 2 * bin[2] /\ Min(a[2], b[2]) < 2 * bin[2] + 2
  /\ \/ a = b
     \/ /\ \E q \in Corners(bin) : Cross(a, b, q) > 0
        /\ \E q \in Corners(bin) : Cross(a, b, q) < 0

\* the bin of the whole box that a tile's bin is, by way of GetRowColumn
BinAt(t, sub) ==
  <<GetRowColumn(t)[2] * tiles.nsubdivisions + (sub % tiles.nsubdivisions),
    GetRowColumn(t)[1] * tiles.nsubdivisions + (sub \div tiles.nsubdivisions)>>

BinsOfMap(m) == UNION {{BinAt(t, sub) : sub \in m[t]} : t \in DOMAIN m}

AllBins == {<<sx, sy>> : sx \in 0..(subcols - 1), sy \in 0..(subrows - 1)}

\* C13: Intersect returns every bin the polyline crosses and no bin it does
\* not touch, the part of a segment outside the box counting for nothing;
\* no points give the empty map, a point outside the box (also twice) gives
\* the empty map, a point inside the box (also twice) gives its bin alone;
\* every bin index is below nsubdivisions^2 and every tile is a tile of the
\* grid; the polyline reversed gives the same map.
C13_IntersectIsExact ==
  Returned("Intersect") =>
    /\ \A t \in DOMAIN res.ret :
         /\ t \in 0..(TileCount - 1)
         /\ res.ret[t] # {}
         /\ res.ret[t] \subseteq 0..(tiles.nsubdivisions * tiles.nsubdivisions - 1)
    /\ \A bin \in AllBins :
         /\ (\E sg \in Segments(call.l) : CrossesBin(sg[1], sg[2], bin))
              => bin \in BinsOfMap(res.ret)
         /\ bin \in BinsOfMap(res.ret)
              => \E sg \in Segments(call.l) : TouchesBin(sg[1], sg[2], bin)
    /\ call.l = <<>> => res.ret = <<>>
    /\ \A p \in Points :
         call.l \in {<<p>>, <<p, p>>} =>
           /\ (p[1] < 0 \/ p[2] < 0 \/ p[1] > 2 * subcols \/ p[2] > 2 * subrows)
                => res.ret = <<>>
           /\ InGrid(BinOf(p))
                => res.ret = [t \in {TileOfBin(BinOf(p))} |-> {SubdivisionOfBin(BinOf(p))}]
    /\ Intersect(Reversed(call.l)) = res.ret

\* C13 witness: a sloping segment that starts outside the box and ends
\* inside it has been intersected, and the map holds bins of two tiles
C13_ClippedSlopingSegment ==
  /\ Returned("Intersect")
  /\ Len(call.l) = 2
  /\ call.l[1][1] < 0
  /\ InGrid(BinOf(call.l[2]))
  /\ call.l[1][2] # call.l[2][2]
  /\ Cardinality(DOMAIN res.ret) >= 2
  /\ \E t \in DOMAIN res.ret : Cardinality(res.ret[t]) >= 2

\* C14: every call of GetShortcut ends, on any tile set: also on a closed
\* loop of two-edge nodes none of whose edges is superseded.
C14_GetShortcutTerminates == call.op = "GetShortcut" => pc # "looping"

\* C15: a valid id that GetShortcut returns and that is not its input is the
\* id of a shortcut edge that leaves the node the superseded edge leaves and
\* whose shortcut mask has the bit of the superseded edge's mask, whichever
\* bit that is.
C15_ReturnsTheSupersedingShortcut ==
  (Returned("GetShortcut") /\ ~res.fault /\ Is_Valid(res.ret) /\ res.ret # call.e1) =>
    /\ res.sup \in EdgeIds
    /\ res.ret \in EdgeIds
    /\ store.edge[res.ret].is_shortcut
    /\ BeginNode(res.ret) = BeginNode(res.sup)
    /\ BitAnd(store.edge[res.ret].shortcut, store.edge[res.sup].superseded) # 0

\* C16: every call of RecoverShortcut ends, on any tile set and shortcut:
\* also when the matching edges are of length 0 or run in a loop that never
\* comes to the shortcut's end node.
C16_RecoverShortcutTerminates == call.op = "RecoverShortcut" => pc # "looping"

====
